---- MODULE Spec2Model ----
(***************************************************************************)
(* Model of the BAML batch extraction core:                               *)
(* genai_blueprint/hackathon/cli_commands/commands_baml.py                 *)
(*   ProcessingStats, BamlStructuredProcessor.abatch_analyze_documents     *)
(* The key-value store (PydanticStore / save_object_to_kvstore) and the    *)
(* extraction collaborator (baml_async_client.ExtractFromDocument) are     *)
(* external: the store is a map from keys to artifacts, an extraction      *)
(* call returns an artifact derived from its content, or raises.           *)
(***************************************************************************)
EXTENDS Integers, Sequences, FiniteSets, TLC

\* ---------------------------------------------------------------- bounds
\* Largest number of documents handed to one batch call.
MaxDocs == 2

\* Document ids (file stems) and document contents ("" is the empty content).
DocIds == {"a", "b", "c"}
Contents == {"", "text-B"}

\* Python's None: what load_object returns for a key without entry.
None == [none |-> TRUE]

\* ------------------------------------------------------------- artifacts
\* A model instance: its identity field and the data extracted from a content.
Artifact(id, c) == [document_id |-> id, data |-> c]

\* The identity value an extraction result carries before it is stamped.
Unstamped == "unstamped"

\* What a completed extraction call leaves in `results`:
\*   ok  - a model instance extracted from content c
\*   bad - a result that model_cls(**result_dict) rejects (unusable result)
\*   exc - the exception the call raised
ExtractOutcomes == {"ok", "bad", "exc"}

ExtractionError(c) == <<"ExtractionError", c>>
ValidationError(c) == <<"ValidationError", c>>
StoreError(k) == <<"StoreError", k>>

ExtractFromDocument(c, outcome) ==
  IF outcome = "exc"
  THEN [kind |-> "exc", error |-> ExtractionError(c)]
  ELSE [kind |-> outcome, value |-> Artifact(Unstamped, c)]

\* ------------------------------------------------------ ProcessingStats
NewStats ==
  [files_discovered |-> 0, files_processed |-> 0, cache_hits |-> 0,
   errors |-> 0, error_details |-> << >>]

\* add_error that counts every error and lists a file once.
add_error_once_per_file(s, file_name, error) ==
  [s EXCEPT !.errors = @ + 1,
            !.error_details =
              IF \E i \in DOMAIN @ : @[i].file = file_name
              THEN @
              ELSE Append(@, [file |-> file_name, error |-> error])]

\* add_error that keeps only the newest entry.
add_error_replacing(s, file_name, error) ==
  [s EXCEPT !.errors = @ + 1,
            !.error_details = <<[file |-> file_name, error |-> error]>>]

\* add_error that appends the entry and forgets the counter.
add_error_uncounted(s, file_name, error) ==
  [s EXCEPT !.error_details = Append(@, [file |-> file_name, error |-> error])]

add_error(s, file_name, error) ==
  [s EXCEPT !.errors = @ + 1,
            !.error_details = Append(@, [file |-> file_name, error |-> error])]

\* ------------------------------------------------------------ the store
\* load_object that finds nothing (a lookup under the wrong key or store id).
load_object_absent(st, key) == None

\* PydanticStore(...).load_object(key): the stored instance, or None.
load_object(st, key) == st[key]

\* save_object_to_kvstore that keeps an existing entry and writes nothing.
save_object_dropped(st, key, obj) == st

\* save_object_to_kvstore(key, obj): the entry under key is replaced.
save_object_to_kvstore(st, key, obj) == [st EXCEPT ![key] = obj]

\* A store as earlier runs leave it: every entry carries its key as identity.
StoredContents == {"old"}
WellFormedStores ==
  {s \in [DocIds -> {None} \cup {Artifact(k, c) : k \in DocIds, c \in StoredContents}] :
     \A k \in DocIds : s[k] # None => s[k].document_id = k}

\* ------------------------------------------------------------ variables
VARIABLES
  store,              \* the key-value store "file": key -> artifact or None
  force,              \* BamlStructuredProcessor.force
  stats,              \* BamlStructuredProcessor.stats
  pc,                 \* position in abatch_analyze_documents
  document_ids,       \* argument
  markdown_contents,  \* argument
  analyzed_docs,      \* local: the list that is returned
  remaining_ids,      \* local: the work list
  remaining_contents, \* local
  tasks,              \* per dispatched call: "created", "pending" or its outcome
  results,            \* local: outcomes in the order of completion
  order,              \* history: the task index of each entry of results
  log,                \* history: store reads, extraction calls, store writes of this call
  idx,                \* loop position (cache-probe loop, result loop)
  start,              \* history: store and stats when the call was entered
  prev,               \* history: the previous call on this processor, if any
  caller,             \* analyze_document: the calling context and the arguments
  executions,         \* history: batch executions started by analyze_document
  wrapper_result,     \* analyze_document: what it returned or raised
  extracted_info,     \* get_analysis_hash: argument
  kcp_content,        \* get_analysis_hash: argument
  analysis_hash,      \* get_analysis_hash: the value returned
  session_state,      \* st.session_state of the one browser session
  ocr_cache,          \* the st.cache_resource entries of cached_mistral_ocr
  ocr_calls,          \* history: calls of process_with_mistral_ocr per (bytes, type)
  kcp_file,           \* the content of kcp/kcp_example.md, None when it is missing
  data_cache,         \* the st.cache_data entries of the three cached stages
  last_call,          \* history: the last webapp call, its arguments and result
  error_table,        \* what create_error_table returned last
  run                 \* history: the files of the structured_extract_baml run

\* The state outside the batch call: the single-document wrapper, the
\* fingerprint functions, the Streamlit session.
wrappervars == <<caller, executions, wrapper_result>>
hashvars == <<extracted_info, kcp_content, analysis_hash>>
webvars == <<session_state, ocr_cache, ocr_calls, kcp_file, data_cache, last_call>>
statsvars == <<error_table>>
runvars == <<run>>
outside == <<wrappervars, hashvars, webvars, statsvars, runvars>>

\* The state of the processor and of its batch call.
batchvars == <<store, force, stats, pc, document_ids, markdown_contents,
               analyzed_docs, remaining_ids, remaining_contents, tasks, results,
               order, log, idx, start, prev>>

vars == <<store, force, stats, pc, document_ids, markdown_contents, analyzed_docs,
          remaining_ids, remaining_contents, tasks, results, order, log, idx,
          start, prev, outside>>

\* What is remembered of a call that returned: nothing yet.
NoCall == [called |-> FALSE]

\* analyze_document has not been called.
NoCaller == [context |-> "none"]
NoResult == [kind |-> "none"]
WrapperIdle ==
  /\ caller = NoCaller
  /\ executions = 0
  /\ wrapper_result = NoResult

\* get_analysis_hash has not been called. A str is a sequence of characters.
HashIdle ==
  /\ extracted_info = << >>
  /\ kcp_content = << >>
  /\ analysis_hash = None

\* Uploaded files: their bytes and their MIME type (uploaded_file.type).
FileBytes == {"bytes-1", "bytes-2"}
FileTypes == {"application/pdf", "image/png"}
FileNames == {"contract.pdf"}

\* hashlib.md5(file_bytes).hexdigest() (hash_utils.py line 9): the digest is
\* a function of the bytes; on the few values of the model no two collide.
get_file_hash(file_bytes) == <<"md5", file_bytes>>

\* The keys of st.session_state that the hash-keyed pipeline uses; a key that
\* is not set reads as None (st.session_state.get).
SessionKeys ==
  {"current_file_name", "current_file_hash", "current_file_bytes",
   "current_file_type", "ocr_complete", "ocr_in_progress", "markdown_content",
   "saved_path", "extracted_info", "resumed_content", "kcp_analysis",
   "_streamlit_cache_hits"}

\* The argument tuples of cached_mistral_ocr (cache_manager.py line 14), which
\* are the keys of its cache.
OcrKeys == {<<get_file_hash(b), b, t>> : b \in FileBytes, t \in FileTypes}

\* What is remembered of the last webapp call: nothing yet.
NoWebCall == [op |-> "none"]

\* A value that is set, as opposed to None.
Some(x) == [some |-> x]

\* A fresh browser session on a freshly started server; the OCR service has
\* not been called.
WebIdle ==
  /\ session_state = [k \in SessionKeys |-> None]
  /\ ocr_cache = [k \in OcrKeys |-> None]
  /\ ocr_calls = [p \in FileBytes \X FileTypes |-> [calls |-> 0, failures |-> 0]]
  /\ kcp_file = None
  /\ data_cache = {}
  /\ last_call = NoWebCall

\* structured_extract_baml has not been run.
NoRun == [called |-> FALSE]

\* create_error_table has not been called.
NoTable == [kind |-> "not created"]
StatsIdle == error_table = NoTable

\* ----------------------------------------------------------------- Init
\* A processor has been constructed (stats zeroed, force as given); the store
\* holds what earlier runs left in it.
ProcessorIdle ==
  /\ stats = NewStats
  /\ pc = "idle"
  /\ document_ids = << >>
  /\ markdown_contents = << >>
  /\ analyzed_docs = << >>
  /\ remaining_ids = << >>
  /\ remaining_contents = << >>
  /\ tasks = << >>
  /\ results = << >>
  /\ order = << >>
  /\ log = << >>
  /\ idx = 0
  /\ start = [store |-> store, stats |-> stats]
  /\ prev = NoCall
  /\ run = NoRun

Init ==
  /\ store \in WellFormedStores
  /\ force \in BOOLEAN
  /\ ProcessorIdle
  /\ WrapperIdle
  /\ HashIdle
  /\ WebIdle
  /\ StatsIdle

\* -------------------------------------------------------------- actions
\* Inputs of one call: equally long lists of ids and contents (zip strict).
\* The code only compares ids for equality, so of the id lists that differ by a
\* renaming of ids one is taken: each id is one used before or the next unused one
\* (duplicate ids, as two files with one stem give, are kept).
IdOrder == <<"a", "b", "c">>
IdRank(d) == CHOOSE r \in DOMAIN IdOrder : IdOrder[r] = d
IdLists(n) ==
  {s \in [1..n -> DocIds] :
     \A i \in 1..n : \A r \in 1..(IdRank(s[i]) - 1) : \E j \in 1..(i - 1) : s[j] = IdOrder[r]}
BatchInputs ==
  UNION {IdLists(n) \X [1..n -> Contents] : n \in 0..MaxDocs}

\* Entry of abatch_analyze_documents (lines 126-128).
Enter(ids, contents) ==
  /\ document_ids' = ids
  /\ markdown_contents' = contents
  /\ analyzed_docs' = << >>
  /\ remaining_ids' = << >>
  /\ remaining_contents' = << >>
  /\ tasks' = << >>
  /\ results' = << >>
  /\ order' = << >>
  /\ log' = << >>
  /\ idx' = 1
  /\ start' = [store |-> store, stats |-> stats]
  /\ pc' = "probe"
  /\ UNCHANGED <<store, force, stats>>

\* The first call on the processor, with any input.
Call ==
  /\ pc = "idle"
  /\ \E inp \in BatchInputs : Enter(inp[1], inp[2])
  /\ UNCHANGED <<prev, outside>>

\* The cache probe not guarded by force.
ProbesCacheAlways(f) == TRUE

\* "if self.kvstore_id and not self.force" (line 131); kvstore_id is never empty
\* (line 118: kvstore_id or KV_STORE_ID).
ProbesCache(f) == ~f

\* One iteration of the cache-probe loop (lines 133-142).
CacheProbe ==
  /\ pc = "probe"
  /\ ProbesCache(force)
  /\ idx <= Len(document_ids)
  /\ LET doc_id == document_ids[idx]
         content == markdown_contents[idx]
         cached_doc == load_object(store, doc_id)
     IN /\ log' = Append(log, [op |-> "read", arg |-> doc_id])
        /\ IF cached_doc # None
           THEN /\ analyzed_docs' = Append(analyzed_docs, cached_doc)
                /\ stats' = [stats EXCEPT !.cache_hits = @ + 1]
                /\ UNCHANGED <<remaining_ids, remaining_contents>>
           ELSE /\ remaining_ids' = Append(remaining_ids, doc_id)
                /\ remaining_contents' = Append(remaining_contents, content)
                /\ UNCHANGED <<analyzed_docs, stats>>
  /\ idx' = idx + 1
  /\ UNCHANGED <<store, force, pc, document_ids, markdown_contents, tasks, results,
                 order, start, prev, outside>>

\* The cache-probe loop is over (line 142 falls through to line 147).
ProbeDone ==
  /\ pc = "probe"
  /\ ProbesCache(force)
  /\ idx > Len(document_ids)
  /\ pc' = "check"
  /\ UNCHANGED <<store, force, stats, document_ids, markdown_contents, analyzed_docs,
                 remaining_ids, remaining_contents, tasks, results, order, log, idx,
                 start, prev, outside>>

\* force: the whole input is the work list (lines 143-145).
SkipProbe ==
  /\ pc = "probe"
  /\ ~ProbesCache(force)
  /\ remaining_ids' = document_ids
  /\ remaining_contents' = markdown_contents
  /\ pc' = "check"
  /\ UNCHANGED <<store, force, stats, document_ids, markdown_contents, analyzed_docs,
                 tasks, results, order, log, idx, start, prev, outside>>

\* An early return that reports the empty work list as a failure.
NothingRemainingAsError ==
  /\ pc = "check"
  /\ remaining_ids = << >>
  /\ pc' = "done"
  /\ stats' = add_error(stats, "", <<"ProcessingError", "">>)
  /\ UNCHANGED <<store, force, document_ids, markdown_contents, analyzed_docs,
                 remaining_ids, remaining_contents, tasks, results, order, log, idx,
                 start, prev, outside>>

\* "if not remaining_ids: return analyzed_docs" (lines 147-148).
NothingRemaining ==
  /\ pc = "check"
  /\ remaining_ids = << >>
  /\ pc' = "done"
  /\ UNCHANGED <<store, force, stats, document_ids, markdown_contents, analyzed_docs,
                 remaining_ids, remaining_contents, tasks, results, order, log, idx,
                 start, prev, outside>>

\* One extraction call per remaining content (line 154): the coroutines are
\* created, none has started.
Dispatch ==
  /\ pc = "check"
  /\ remaining_ids # << >>
  /\ tasks' = [i \in 1..Len(remaining_contents) |-> "created"]
  /\ log' = log \o [i \in 1..Len(remaining_contents) |->
                      [op |-> "extract", arg |-> remaining_contents[i]]]
  /\ results' = << >>
  /\ order' = << >>
  /\ pc' = "start"
  /\ UNCHANGED <<store, force, stats, document_ids, markdown_contents, analyzed_docs,
                 remaining_ids, remaining_contents, idx, start, prev, outside>>

\* as_completed schedules every coroutine as a task (line 169) and the batch
\* suspends at its first await (line 171): the event loop runs each task to
\* its first suspension, the request to the extraction service. as_completed
\* keeps the tasks in a set, so they start in any order.
TaskStarts ==
  /\ pc = "start"
  /\ \E i \in DOMAIN tasks :
       /\ tasks[i] = "created"
       /\ tasks' = [tasks EXCEPT ![i] = "pending"]
  /\ UNCHANGED <<store, force, stats, pc, document_ids, markdown_contents,
                 analyzed_docs, remaining_ids, remaining_contents, results, order,
                 log, idx, start, prev, outside>>

\* A batch that is resumed as soon as one call is in flight.
AllStartedAfterFirst ==
  /\ pc = "start"
  /\ \E i \in DOMAIN tasks : tasks[i] = "pending"
  /\ pc' = "await"
  /\ UNCHANGED <<store, force, stats, document_ids, markdown_contents, analyzed_docs,
                 remaining_ids, remaining_contents, tasks, results, order, log, idx,
                 start, prev, outside>>

\* Every task has run to its first suspension; the batch, suspended at line
\* 171, is resumed by the first completion.
AllStarted ==
  /\ pc = "start"
  /\ \A i \in DOMAIN tasks : tasks[i] # "created"
  /\ pc' = "await"
  /\ UNCHANGED <<store, force, stats, document_ids, markdown_contents, analyzed_docs,
                 remaining_ids, remaining_contents, tasks, results, order, log, idx,
                 start, prev, outside>>

\* The next call to complete, whichever it is, is appended to results
\* (lines 169-176): results is in completion order.
TaskCompletes ==
  /\ pc = "await"
  /\ \E i \in DOMAIN tasks : \E outcome \in ExtractOutcomes :
       /\ tasks[i] = "pending"
       /\ tasks' = [tasks EXCEPT ![i] = outcome]
       /\ results' = Append(results, ExtractFromDocument(remaining_contents[i], outcome))
       /\ order' = Append(order, i)
  /\ UNCHANGED <<store, force, stats, pc, document_ids, markdown_contents,
                 analyzed_docs, remaining_ids, remaining_contents, log, idx, start,
                 prev, outside>>

\* A batch that goes on only when every call has succeeded.
AllCompletedIfAllSucceeded ==
  /\ pc = "await"
  /\ \A i \in DOMAIN tasks : tasks[i] = "ok"
  /\ idx' = 1
  /\ pc' = "save"
  /\ UNCHANGED <<store, force, stats, document_ids, markdown_contents, analyzed_docs,
                 remaining_ids, remaining_contents, tasks, results, order, log, start,
                 prev, outside>>

\* as_completed is exhausted (line 176 falls through to line 179).
AllCompleted ==
  /\ pc = "await"
  /\ \A i \in DOMAIN tasks : tasks[i] # "pending"
  /\ idx' = 1
  /\ pc' = "save"
  /\ UNCHANGED <<store, force, stats, document_ids, markdown_contents, analyzed_docs,
                 remaining_ids, remaining_contents, tasks, results, order, log, start,
                 prev, outside>>

\* zip(remaining_ids, results, strict=True) (line 179): the k-th pair.
ZipResults(ids, res, k) == <<ids[k], res[k]>>

\* Stamping that sets the identity field only where the extraction left none.
StampIfMissing(value, doc_id) ==
  IF value.document_id = "" THEN [value EXCEPT !.document_id = doc_id] ELSE value

\* Stamping that leaves the identity field as the extraction returned it.
StampKeep(value, doc_id) == value

\* result.model_dump(), result_dict["document_id"] = doc_id,
\* model_cls(**result_dict) (lines 188-190).
Stamp(value, doc_id) == [value EXCEPT !.document_id = doc_id]

\* A result loop that returns an artifact only once it has been stored: a
\* failing store write loses the artifact.
ProcessResultStoredOnly ==
  /\ pc = "save"
  /\ idx <= Len(remaining_ids)
  /\ LET pair == ZipResults(remaining_ids, results, idx)
         doc_id == pair[1]
         result == pair[2]
     IN CASE result.kind = "exc" ->
               /\ stats' = add_error(stats, doc_id, result.error)
               /\ UNCHANGED <<analyzed_docs, store, log>>
          [] result.kind = "bad" ->
               /\ stats' = add_error(stats, doc_id, ValidationError(result.value.data))
               /\ UNCHANGED <<analyzed_docs, store, log>>
          [] result.kind = "ok" ->
               LET result_with_id == Stamp(result.value, doc_id)
               IN \E saved \in BOOLEAN :
                    IF saved
                    THEN /\ store' = save_object_to_kvstore(store, doc_id, result_with_id)
                         /\ analyzed_docs' = Append(analyzed_docs, result_with_id)
                         /\ stats' = [stats EXCEPT !.files_processed = @ + 1]
                         /\ log' = Append(log, [op |-> "write", arg |-> doc_id])
                    ELSE /\ stats' = add_error(stats, doc_id, StoreError(doc_id))
                         /\ log' = Append(log, [op |-> "write_failed", arg |-> doc_id])
                         /\ UNCHANGED <<store, analyzed_docs>>
  /\ idx' = idx + 1
  /\ UNCHANGED <<force, pc, document_ids, markdown_contents, remaining_ids,
                 remaining_contents, tasks, results, order, start, prev, outside>>

\* One iteration of the result loop (lines 179-203). The store write may fail.
ProcessResult ==
  /\ pc = "save"
  /\ idx <= Len(remaining_ids)
  /\ LET pair == ZipResults(remaining_ids, results, idx)
         doc_id == pair[1]
         result == pair[2]
     IN CASE result.kind = "exc" ->
               /\ stats' = add_error(stats, doc_id, result.error)
               /\ UNCHANGED <<analyzed_docs, store, log>>
          [] result.kind = "bad" ->
               /\ stats' = add_error(stats, doc_id, ValidationError(result.value.data))
               /\ UNCHANGED <<analyzed_docs, store, log>>
          [] result.kind = "ok" ->
               LET result_with_id == Stamp(result.value, doc_id)
               IN /\ analyzed_docs' = Append(analyzed_docs, result_with_id)
                  /\ \E saved \in BOOLEAN :
                       IF saved
                       THEN /\ store' = save_object_to_kvstore(store, doc_id, result_with_id)
                            /\ stats' = [stats EXCEPT !.files_processed = @ + 1]
                            /\ log' = Append(log, [op |-> "write", arg |-> doc_id])
                       ELSE /\ stats' = add_error([stats EXCEPT !.files_processed = @ + 1],
                                                  doc_id, StoreError(doc_id))
                            /\ log' = Append(log, [op |-> "write_failed", arg |-> doc_id])
                            /\ UNCHANGED store
  /\ idx' = idx + 1
  /\ UNCHANGED <<force, pc, document_ids, markdown_contents, remaining_ids,
                 remaining_contents, tasks, results, order, start, prev, outside>>

\* "return analyzed_docs" (line 205).
ResultsDone ==
  /\ pc = "save"
  /\ idx > Len(remaining_ids)
  /\ pc' = "done"
  /\ UNCHANGED <<store, force, stats, document_ids, markdown_contents, analyzed_docs,
                 remaining_ids, remaining_contents, tasks, results, order, log, idx,
                 start, prev, outside>>

\* The caller has the returned list.
Return ==
  /\ pc = "done"
  /\ pc' = "returned"
  /\ UNCHANGED <<store, force, stats, document_ids, markdown_contents, analyzed_docs,
                 remaining_ids, remaining_contents, tasks, results, order, log, idx,
                 start, prev, outside>>

\* The same processor is called a second time on the same documents.
Rerun ==
  /\ pc = "returned"
  /\ ~prev.called
  /\ prev' = [called |-> TRUE, returned |-> analyzed_docs, tasks |-> tasks,
              log |-> log, start |-> start, stats |-> stats]
  /\ Enter(document_ids, markdown_contents)
  /\ UNCHANGED outside

Next ==
  \/ Call
  \/ CacheProbe
  \/ ProbeDone
  \/ SkipProbe
  \/ NothingRemaining
  \/ Dispatch
  \/ TaskStarts
  \/ AllStarted
  \/ TaskCompletes
  \/ AllCompleted
  \/ ProcessResult
  \/ ResultsDone
  \/ Return

Spec == Init /\ [][Next]_vars

\* A call followed by a second call on the same documents.
NextRerun ==
  \/ Next
  \/ Rerun

SpecRerun == Init /\ [][NextRerun]_vars

\* ------------------------------------------------- a failing store read
\* The statement of line 134 raises (the store cannot be read). Nothing in
\* abatch_analyze_documents catches it: the exception leaves the call.
ProbeReadFails ==
  /\ pc = "probe"
  /\ ProbesCache(force)
  /\ idx <= Len(document_ids)
  /\ log' = Append(log, [op |-> "read_failed", arg |-> document_ids[idx]])
  /\ pc' = "raised"
  /\ UNCHANGED <<store, force, stats, document_ids, markdown_contents, analyzed_docs,
                 remaining_ids, remaining_contents, tasks, results, order, idx,
                 start, prev, outside>>

\* A call on a store whose reads may fail.
NextReadFail ==
  \/ Next
  \/ ProbeReadFails

SpecReadFail == Init /\ [][NextReadFail]_vars

\* ------------------------------------------- analyze_document (one document)
\* ValueError of lines 220 and 225.
ValueError(document_id) == <<"ValueError", document_id>>

\* The arguments of analyze_document; ids differ by name only, one is taken.
AnalyzeInputs == IdLists(1) \X Contents

\* Called where no event loop runs: asyncio.run executes the batch on
\* [document_id], [markdown] (line 210).
AnalyzeDocumentSync ==
  /\ pc = "idle"
  /\ caller = NoCaller
  /\ \E inp \in AnalyzeInputs :
       /\ caller' = [context |-> "sync", document_id |-> inp[1][1], markdown |-> inp[2]]
       /\ Enter(inp[1], <<inp[2]>>)
  /\ executions' = executions + 1
  /\ UNCHANGED <<prev, wrapper_result, hashvars, webvars, statsvars, runvars>>

\* Called where an event loop runs: asyncio.run raises RuntimeError before it
\* executes anything (lines 210-211); nest_asyncio is imported and applied and
\* the running loop executes the batch (lines 214-218).
AnalyzeDocumentNested ==
  /\ pc = "idle"
  /\ caller = NoCaller
  /\ \E inp \in AnalyzeInputs :
       /\ caller' = [context |-> "loop", document_id |-> inp[1][1], markdown |-> inp[2]]
       /\ Enter(inp[1], <<inp[2]>>)
  /\ executions' = executions + 1
  /\ UNCHANGED <<prev, wrapper_result, hashvars, webvars, statsvars, runvars>>

\* Called where an event loop runs, and the fallback itself raises:
\* nest_asyncio cannot be imported, or cannot patch the running loop (lines
\* 214-216). The batch is not executed; ValueError is raised (lines 219-220).
AnalyzeDocumentNestedFails ==
  /\ pc = "idle"
  /\ caller = NoCaller
  /\ \E inp \in AnalyzeInputs :
       /\ caller' = [context |-> "loop", document_id |-> inp[1][1], markdown |-> inp[2]]
       /\ wrapper_result' = [kind |-> "raise", error |-> ValueError(inp[1][1])]
  /\ pc' = "returned"
  /\ UNCHANGED <<store, force, stats, document_ids, markdown_contents, analyzed_docs,
                 remaining_ids, remaining_contents, tasks, results, order, log, idx,
                 start, prev, executions, hashvars, webvars,
                 statsvars, runvars>>

\* A wrapper that hands back whatever the list starts with, or None.
first_or_none(document_id, batch_results) ==
  IF batch_results # << >>
  THEN [kind |-> "return", value |-> batch_results[1]]
  ELSE [kind |-> "return", value |-> None]

\* "if results: return results[0] else: raise ValueError" (lines 222-225).
first_or_raise(document_id, batch_results) ==
  IF batch_results # << >>
  THEN [kind |-> "return", value |-> batch_results[1]]
  ELSE [kind |-> "raise", error |-> ValueError(document_id)]

\* The batch has returned its list to analyze_document (lines 222-225).
AnalyzeDocumentReturn ==
  /\ pc = "returned"
  /\ caller # NoCaller
  /\ wrapper_result = NoResult
  /\ wrapper_result' = first_or_raise(caller.document_id, analyzed_docs)
  /\ UNCHANGED <<store, force, stats, pc, document_ids, markdown_contents,
                 analyzed_docs, remaining_ids, remaining_contents, tasks, results,
                 order, log, idx, start, prev, caller, executions, hashvars, webvars,
                 statsvars, runvars>>

\* Batch calls and calls of analyze_document, from either context.
NextOne ==
  \/ Next
  \/ AnalyzeDocumentSync
  \/ AnalyzeDocumentNested
  \/ AnalyzeDocumentNestedFails
  \/ AnalyzeDocumentReturn

SpecOne == Init /\ [][NextOne]_vars

\* ------------------------------------------------ fingerprints (hash_utils.py)
\* Longest string handed to a fingerprint function.
MaxLen == 2

\* The separator of get_analysis_hash (line 19) and the characters of the
\* strings; a str is a sequence of characters.
Separator == "|"
Alphabet == {"a", "b", "c", Separator}
Strings == UNION {[1..n -> Alphabet] : n \in 0..MaxLen}

\* content.encode('utf-8') (line 14): one byte per character of the alphabet.
CodePoint(ch) ==
  CASE ch = "a" -> 97 [] ch = "b" -> 98 [] ch = "c" -> 99 [] ch = "|" -> 124
encode_utf8(content) == [i \in DOMAIN content |-> CodePoint(content[i])]

\* hashlib.md5(...).hexdigest(): a function of the bytes; on the short strings
\* of the model no two digests collide.
md5_hexdigest(bytes) == <<"md5", bytes>>

\* A digest that does not depend on the content.
get_content_hash_constant(content) == md5_hexdigest(<< >>)

\* get_content_hash (lines 12-14).
get_content_hash(content) == md5_hexdigest(encode_utf8(content))

\* The two parts put together with nothing between them.
combined_content_unseparated(info, kcp) == info \o kcp

\* f"{extracted_info}|{kcp_content}" (line 19).
combined_content(info, kcp) == info \o <<Separator>> \o kcp

\* get_analysis_hash (lines 17-20).
get_analysis_hash(info, kcp) == get_content_hash(combined_content(info, kcp))

\* get_analysis_hash is about to be called on any two strings.
InitHash ==
  /\ store = [k \in DocIds |-> None]
  /\ force = FALSE
  /\ ProcessorIdle
  /\ WrapperIdle
  /\ WebIdle
  /\ StatsIdle
  /\ extracted_info \in Strings
  /\ kcp_content \in Strings
  /\ analysis_hash = None

GetAnalysisHash ==
  /\ analysis_hash = None
  /\ analysis_hash' = get_analysis_hash(extracted_info, kcp_content)
  /\ UNCHANGED <<store, force, stats, pc, document_ids, markdown_contents,
                 analyzed_docs, remaining_ids, remaining_contents, tasks, results,
                 order, log, idx, start, prev, wrappervars, extracted_info,
                 kcp_content, webvars, statsvars, runvars>>

NextHash == GetAnalysisHash

SpecHash == InitHash /\ [][NextHash]_vars

\* ------------------------------------- the hash-keyed OCR stage (webapp)
\* Most calls of the OCR service that are followed.
MaxOcrCalls == 2

\* The calls of the OCR service made so far, for all files together.
RECURSIVE CallsOf(_, _)
CallsOf(calls, pairs) ==
  IF pairs = {} THEN 0
  ELSE LET p == CHOOSE q \in pairs : TRUE
       IN calls[p].calls + CallsOf(calls, pairs \ {p})
TotalOcrCalls == CallsOf(ocr_calls, FileBytes \X FileTypes)

\* reset_document_state (session_state.py lines 10-19).
keys_to_reset ==
  {"ocr_complete", "markdown_content", "extracted_info", "resumed_content",
   "kcp_analysis", "ocr_in_progress", "current_file_bytes", "current_file_type"}
\* A reset that keeps the KCP analysis.
reset_document_state_keeping_analysis(ss) ==
  [k \in SessionKeys |-> IF k \in keys_to_reset \ {"kcp_analysis"} THEN None ELSE ss[k]]
\* The session after the reset.
reset_document_state(ss) ==
  [k \in SessionKeys |-> IF k \in keys_to_reset THEN None ELSE ss[k]]

\* An upload handler that takes a file for new when its name is new.
initialize_document_processing_by_name(ss, file_bytes, file_name, file_type) ==
  LET file_hash == get_file_hash(file_bytes)
  IN IF ss["current_file_name"] # Some(file_name)
     THEN [reset_document_state([ss EXCEPT !["current_file_name"] = Some(file_name),
                                           !["current_file_hash"] = Some(file_hash)])
             EXCEPT !["current_file_bytes"] = Some(file_bytes),
                    !["current_file_type"] = Some(file_type),
                    !["ocr_in_progress"] = Some(TRUE)]
     ELSE ss

\* initialize_document_processing (session_state.py lines 22-43): the session
\* after the call.
initialize_document_processing(ss, file_bytes, file_name, file_type) ==
  LET file_hash == get_file_hash(file_bytes)
  IN IF ss["current_file_hash"] # Some(file_hash)
     THEN [reset_document_state([ss EXCEPT !["current_file_name"] = Some(file_name),
                                           !["current_file_hash"] = Some(file_hash)])
             EXCEPT !["current_file_bytes"] = Some(file_bytes),
                    !["current_file_type"] = Some(file_type),
                    !["ocr_in_progress"] = Some(TRUE)]
     ELSE ss

\* "return file_hash" (session_state.py line 43).
initialize_document_processing_returns(file_bytes) == get_file_hash(file_bytes)

\* A file is uploaded (or the page is rendered again with the uploaded file).
InitializeDocumentProcessing ==
  /\ \E file_bytes \in FileBytes, file_name \in FileNames, file_type \in FileTypes :
       /\ session_state' =
            initialize_document_processing(session_state, file_bytes, file_name, file_type)
       /\ last_call' = [op |-> "initialize_document_processing",
                        file_bytes |-> file_bytes, file_name |-> file_name,
                        file_type |-> file_type,
                        returned |-> initialize_document_processing_returns(file_bytes)]
  /\ UNCHANGED <<batchvars, wrappervars, hashvars, statsvars, runvars, ocr_cache, ocr_calls,
                 kcp_file, data_cache>>

\* What process_with_mistral_ocr does with a file: it returns the markdown of
\* the document, returns an empty markdown, or raises (mistral_ocr.py 9-46).
OcrOutcomes == {"text", "empty", "exc"}
\* A text is a sequence of characters: the markdown of the first file is "a", of
\* the second "b".
OcrText(file_bytes) == IF file_bytes = "bytes-1" THEN <<"a">> ELSE <<"b">>
process_with_mistral_ocr(file_bytes, file_type, ocr_outcome) ==
  IF ocr_outcome = "text" THEN OcrText(file_bytes) ELSE << >>

\* A cache that keeps nothing.
cache_resource_forget(cache, key, value) == cache

\* st.cache_resource keeps the value a call returned under the call's
\* arguments (cache_manager.py line 13); a call that raises leaves no entry.
cache_resource_keep(cache, key, value) == [cache EXCEPT ![key] = Some(value)]

\* process_ocr_with_spinner (document_renderer.py lines 15-39), with
\* cached_mistral_ocr (cache_manager.py lines 13-16) and the OCR call inside it.
ProcessOcrWithSpinner ==
  /\ session_state["ocr_complete"] # Some(TRUE)
  /\ session_state["current_file_hash"] # None
  /\ LET file_hash == session_state["current_file_hash"].some
         file_bytes == session_state["current_file_bytes"].some
         file_type == session_state["current_file_type"].some
         key == <<file_hash, file_bytes, file_type>>
         pair == <<file_bytes, file_type>>
         Rendered(markdown_result) ==
           IF markdown_result # << >>
           THEN \E saved \in BOOLEAN :
                  /\ session_state' =
                       IF saved
                       THEN [session_state EXCEPT
                               !["markdown_content"] = Some(markdown_result),
                               !["saved_path"] = Some(session_state["current_file_name"].some),
                               !["ocr_complete"] = Some(TRUE),
                               !["ocr_in_progress"] = Some(FALSE)]
                       ELSE [session_state EXCEPT
                               !["markdown_content"] = Some(markdown_result),
                               !["ocr_in_progress"] = Some(FALSE)]
                  /\ last_call' = [op |-> "process_ocr_with_spinner",
                                   failed |-> IF saved THEN "none" ELSE "save"]
           ELSE /\ UNCHANGED session_state
                /\ last_call' = [op |-> "process_ocr_with_spinner", failed |-> "none"]
     IN IF ocr_cache[key] # None
        THEN /\ Rendered(ocr_cache[key].some)
             /\ UNCHANGED <<ocr_cache, ocr_calls>>
        ELSE /\ TotalOcrCalls < MaxOcrCalls
             /\ \E ocr_outcome \in OcrOutcomes :
                  IF ocr_outcome = "exc"
                  THEN /\ ocr_calls' = [ocr_calls EXCEPT ![pair].calls = @ + 1,
                                                         ![pair].failures = @ + 1]
                       /\ session_state' =
                            [session_state EXCEPT !["ocr_in_progress"] = Some(FALSE)]
                       /\ last_call' = [op |-> "process_ocr_with_spinner", failed |-> "ocr"]
                       /\ UNCHANGED ocr_cache
                  ELSE LET markdown_result ==
                             process_with_mistral_ocr(file_bytes, file_type, ocr_outcome)
                       IN /\ ocr_calls' = [ocr_calls EXCEPT ![pair].calls = @ + 1]
                          /\ ocr_cache' = cache_resource_keep(ocr_cache, key, markdown_result)
                          /\ Rendered(markdown_result)
  /\ UNCHANGED <<batchvars, wrappervars, hashvars, statsvars, runvars, kcp_file, data_cache>>

\* One browser session: uploads and renders of the Markdown tab in any order.
InitWeb ==
  /\ store = [k \in DocIds |-> None]
  /\ force = FALSE
  /\ ProcessorIdle
  /\ WrapperIdle
  /\ HashIdle
  /\ WebIdle
  /\ StatsIdle

NextWeb ==
  \/ InitializeDocumentProcessing
  \/ ProcessOcrWithSpinner

SpecWeb == InitWeb /\ [][NextWeb]_vars

\* --------------------------------- the hash-keyed pipeline after the OCR
\* The contents the KCP reference file kcp/kcp_example.md may have.
KcpContents == {<<"b">>, <<"c">>}

\* The language-model functions (baml_access.py): the JSON text extracted from
\* a markdown (lines 10-15), the summary of an extracted text (lines 18-20)
\* and the analysis of an extracted text against a KCP content (lines 23-25).
\* Each result names what it was computed from.
extract_legal_information(markdown_content) == <<"c">> \o markdown_content
resume_contract(extracted_info_text) == [summary_of |-> extracted_info_text]
analyse_contract_kcp(extracted_info_text, kcp_text) ==
  [analysis_of |-> extracted_info_text, against |-> kcp_text]

\* A language-model call returns or raises.
CallOutcomes == {"ok", "exc"}

\* st.cache_data (cache_manager.py lines 19, 25, 31): a call whose arguments
\* are in the cache returns the cached value; another call runs the function,
\* and its value is kept when it returns.
cache_data_returns(cache, key, call_outcome) == key \in cache \/ call_outcome = "ok"
\* A cache that also keeps an entry for a call that raised.
cache_data_keep_always(cache, key, call_outcome) == cache \cup {key}
\* The entries after the call.
cache_data_keep(cache, key, call_outcome) ==
  IF key \notin cache /\ call_outcome = "ok" THEN cache \cup {key} ELSE cache

\* The arguments of the three cached functions (cache_manager.py lines 20, 26, 32).
cached_legal_extraction_key(markdown_content) ==
  <<"cached_legal_extraction", get_content_hash(markdown_content), markdown_content>>
cached_contract_summary_key(info) ==
  <<"cached_contract_summary", get_content_hash(info), info>>
cached_kcp_analysis_key(info, kcp) ==
  <<"cached_kcp_analysis", get_analysis_hash(info, kcp), info, kcp>>

\* is_ocr_complete() and get_markdown_content() (extraction_renderer.py line 19).
OcrDone(ss) ==
  /\ ss["ocr_complete"] = Some(TRUE)
  /\ ss["markdown_content"] # None
  /\ ss["markdown_content"].some # << >>

\* render_extracted_information (extraction_renderer.py lines 15-33).
RenderExtractedInformation ==
  /\ IF OcrDone(session_state) /\ session_state["extracted_info"] = None
     THEN LET markdown_content == session_state["markdown_content"].some
              key == cached_legal_extraction_key(markdown_content)
          IN \E call_outcome \in CallOutcomes :
               /\ data_cache' = cache_data_keep(data_cache, key, call_outcome)
               /\ session_state' =
                    IF cache_data_returns(data_cache, key, call_outcome)
                    THEN [session_state EXCEPT !["extracted_info"] =
                            Some(extract_legal_information(markdown_content))]
                    ELSE session_state
               /\ last_call' =
                    [op |-> "render_extracted_information",
                     failed |-> IF cache_data_returns(data_cache, key, call_outcome)
                                THEN "none" ELSE "extraction"]
     ELSE /\ UNCHANGED <<session_state, data_cache>>
          /\ last_call' = [op |-> "render_extracted_information", failed |-> "none"]
  /\ UNCHANGED <<batchvars, wrappervars, hashvars, statsvars, runvars, ocr_cache, ocr_calls,
                 kcp_file>>

\* "if st.session_state.get('kcp_analysis') is None" (analysis_renderer.py
\* line 59): whether the tab computes the analysis.
kcp_analysis_needed(ss) == ss["kcp_analysis"] = None

\* _render_kcp_analysis_tab (analysis_renderer.py lines 56-77): the session
\* and the cache after the tab was rendered on session ss.
RenderKcpAnalysisTab(ss, cache, extracted_info_text, call_outcome) ==
  IF kcp_analysis_needed(ss) /\ kcp_file # None
  THEN LET kcp_text == kcp_file.some
           key == cached_kcp_analysis_key(extracted_info_text, kcp_text)
       IN /\ data_cache' = cache_data_keep(cache, key, call_outcome)
          /\ session_state' =
               IF cache_data_returns(cache, key, call_outcome)
               THEN [ss EXCEPT !["kcp_analysis"] =
                       Some(analyse_contract_kcp(extracted_info_text, kcp_text))]
               ELSE ss
  ELSE /\ session_state' = ss
       /\ data_cache' = cache

\* What stopped the KCP tab (analysis_renderer.py lines 71-77): the missing KCP
\* file, the failing analysis call, or nothing.
KcpTabFailure(ss, cache, extracted_info_text, call_outcome) ==
  IF ~kcp_analysis_needed(ss) THEN "none"
  ELSE IF kcp_file = None THEN "kcp_file"
  ELSE IF cache_data_returns(cache,
                             cached_kcp_analysis_key(extracted_info_text, kcp_file.some),
                             call_outcome)
  THEN "none" ELSE "kcp"

\* render_contract_summary (analysis_renderer.py lines 15-53) with the KCP tab
\* it renders (line 50).
RenderContractSummary ==
  /\ IF session_state["extracted_info"] # None
     THEN LET info == session_state["extracted_info"].some
              key == cached_contract_summary_key(info)
              Tab(ss, cache, kcp_outcome) ==
                /\ RenderKcpAnalysisTab(ss, cache, info, kcp_outcome)
                /\ last_call' = [op |-> "render_contract_summary", kcp_tab |-> TRUE,
                                 failed |-> KcpTabFailure(ss, cache, info, kcp_outcome)]
          IN \E summary_outcome \in CallOutcomes, kcp_outcome \in CallOutcomes :
               IF session_state["resumed_content"] = None
               THEN IF cache_data_returns(data_cache, key, summary_outcome)
                    THEN Tab([session_state EXCEPT !["resumed_content"] =
                                Some(resume_contract(info))],
                             cache_data_keep(data_cache, key, summary_outcome),
                             kcp_outcome)
                    ELSE /\ UNCHANGED <<session_state, data_cache>>
                         /\ last_call' = [op |-> "render_contract_summary",
                                          kcp_tab |-> FALSE, failed |-> "summary"]
               ELSE Tab(session_state, data_cache, kcp_outcome)
     ELSE /\ UNCHANGED <<session_state, data_cache>>
          /\ last_call' = [op |-> "render_contract_summary", kcp_tab |-> FALSE,
                           failed |-> "none"]
  /\ UNCHANGED <<batchvars, wrappervars, hashvars, statsvars, runvars, ocr_cache, ocr_calls,
                 kcp_file>>

\* The KCP reference file is edited, created or removed on the server.
KcpFileChanges ==
  /\ \E new \in {None} \cup {Some(k) : k \in KcpContents} :
       /\ new # kcp_file
       /\ kcp_file' = new
  /\ last_call' = NoWebCall
  /\ UNCHANGED <<batchvars, wrappervars, hashvars, statsvars, runvars, session_state, ocr_cache,
                 ocr_calls, data_cache>>

\* An entry of st.cache_data is past its ttl (cache_manager.py lines 19, 25, 31).
CacheDataExpires ==
  /\ \E key \in data_cache : data_cache' = data_cache \ {key}
  /\ last_call' = NoWebCall
  /\ UNCHANGED <<batchvars, wrappervars, hashvars, statsvars, runvars, session_state, ocr_cache,
                 ocr_calls, kcp_file>>

\* One browser session of the hash-keyed page: uploads, renders of the three
\* columns in any order, edits of the KCP file.
NextPipeline ==
  \/ InitializeDocumentProcessing
  \/ ProcessOcrWithSpinner
  \/ RenderExtractedInformation
  \/ RenderContractSummary
  \/ KcpFileChanges
  \/ CacheDataExpires

SpecPipeline == InitWeb /\ [][NextPipeline]_vars

\* ------------------ the name-keyed pipeline (components/document_processor.py)
\* The names under which files are uploaded to the name-keyed page.
UploadNames == {"contract.pdf", "lease.pdf"}

\* The assignments of process_document before the OCR call
\* (document_processor.py lines 31-35).
process_document_clears(ss, file_name) ==
  [ss EXCEPT !["current_file_name"] = Some(file_name),
             !["ocr_complete"] = Some(FALSE),
             !["markdown_content"] = None,
             !["extracted_info"] = None,
             !["resumed_content"] = None]

\* process_document (document_processor.py lines 19-47).
ProcessDocument ==
  /\ \E file_bytes \in FileBytes, file_name \in UploadNames, file_type \in FileTypes :
       /\ IF \/ session_state["current_file_name"] # Some(file_name)
             \/ session_state["ocr_complete"] # Some(TRUE)
          THEN /\ TotalOcrCalls < MaxOcrCalls
               /\ \E ocr_outcome \in OcrOutcomes, saved \in BOOLEAN :
                    LET cleared == process_document_clears(session_state, file_name)
                        pair == <<file_bytes, file_type>>
                        markdown_result ==
                          process_with_mistral_ocr(file_bytes, file_type, ocr_outcome)
                    IN /\ ocr_calls' =
                            IF ocr_outcome = "exc"
                            THEN [ocr_calls EXCEPT ![pair].calls = @ + 1,
                                                   ![pair].failures = @ + 1]
                            ELSE [ocr_calls EXCEPT ![pair].calls = @ + 1]
                       /\ session_state' =
                            IF ocr_outcome = "exc" \/ markdown_result = << >>
                            THEN cleared
                            ELSE IF saved
                            THEN [cleared EXCEPT !["markdown_content"] = Some(markdown_result),
                                                 !["saved_path"] = Some(file_name),
                                                 !["ocr_complete"] = Some(TRUE)]
                            ELSE [cleared EXCEPT !["markdown_content"] = Some(markdown_result)]
          ELSE UNCHANGED <<session_state, ocr_calls>>
       /\ last_call' = [op |-> "process_document", file_bytes |-> file_bytes,
                        file_name |-> file_name, file_type |-> file_type]
  /\ UNCHANGED <<batchvars, wrappervars, hashvars, statsvars, runvars, ocr_cache, kcp_file,
                 data_cache>>

\* render_extracted_information (document_processor.py lines 89-102).
DpRenderExtractedInformation ==
  /\ IF OcrDone(session_state) /\ session_state["extracted_info"] = None
     THEN \E call_outcome \in CallOutcomes :
            session_state' =
              IF call_outcome = "ok"
              THEN [session_state EXCEPT !["extracted_info"] =
                      Some(extract_legal_information(session_state["markdown_content"].some))]
              ELSE session_state
     ELSE UNCHANGED session_state
  /\ last_call' = [op |-> "document_processor.render_extracted_information"]
  /\ UNCHANGED <<batchvars, wrappervars, hashvars, statsvars, runvars, ocr_cache, ocr_calls,
                 kcp_file, data_cache>>

\* The KCP tab of render_contract_summary (document_processor.py lines
\* 161-180): the session after the tab was rendered on session ss.
DpKcpTab(ss, call_outcome) ==
  IF ss["kcp_analysis"] = None /\ kcp_file # None /\ call_outcome = "ok"
  THEN [ss EXCEPT !["kcp_analysis"] =
          Some(analyse_contract_kcp(ss["extracted_info"].some, kcp_file.some))]
  ELSE ss

\* render_contract_summary (document_processor.py lines 129-180).
DpRenderContractSummary ==
  /\ IF session_state["extracted_info"] # None
     THEN \E summary_outcome \in CallOutcomes, kcp_outcome \in CallOutcomes :
            session_state' =
              IF session_state["resumed_content"] = None
              THEN IF summary_outcome = "ok"
                   THEN DpKcpTab([session_state EXCEPT !["resumed_content"] =
                                    Some(resume_contract(session_state["extracted_info"].some))],
                                 kcp_outcome)
                   ELSE session_state
              ELSE DpKcpTab(session_state, kcp_outcome)
     ELSE UNCHANGED session_state
  /\ last_call' = [op |-> "document_processor.render_contract_summary"]
  /\ UNCHANGED <<batchvars, wrappervars, hashvars, statsvars, runvars, ocr_cache, ocr_calls,
                 kcp_file, data_cache>>

\* One browser session of the name-keyed page: uploads, renders of the columns
\* in any order, edits of the KCP file.
NextByName ==
  \/ ProcessDocument
  \/ DpRenderExtractedInformation
  \/ DpRenderContractSummary
  \/ KcpFileChanges

SpecByName == InitWeb /\ [][NextByName]_vars

\* ------------------------------- the cache queries (cache_manager.py 38-53)
\* is_ocr_cached (lines 38-44): the value it returns in session ss. The key
\* '_streamlit_cache_hits' is read with the default set().
is_ocr_cached(ss, file_hash) ==
  LET cache_key == <<"cached_mistral_ocr:", file_hash>>
      hits == IF ss["_streamlit_cache_hits"] = None THEN {}
              ELSE ss["_streamlit_cache_hits"].some
  IN cache_key \in hits

\* The page asks whether the OCR result of a file is cached.
IsOcrCached ==
  /\ \E file_bytes \in FileBytes :
       last_call' = [op |-> "is_ocr_cached", file_hash |-> get_file_hash(file_bytes),
                     returned |-> is_ocr_cached(session_state, get_file_hash(file_bytes))]
  /\ UNCHANGED <<batchvars, wrappervars, hashvars, statsvars, runvars, session_state,
                 ocr_cache, ocr_calls, kcp_file, data_cache>>

\* Uploads, renders of the Markdown tab and cache queries in any order.
NextOcrQuery ==
  \/ NextWeb
  \/ IsOcrCached

SpecOcrQuery == InitWeb /\ [][NextOcrQuery]_vars

\* The calls get_cached_result_fast is used with: the arguments of a cached
\* function (the key of its cache entry).
FastCalls ==
  {cached_legal_extraction_key(OcrText(b)) : b \in FileBytes}
  \cup {cached_contract_summary_key(extract_legal_information(OcrText(b))) : b \in FileBytes}
  \cup {cached_kcp_analysis_key(extract_legal_information(OcrText(b)), k) :
          b \in FileBytes, k \in KcpContents}

\* What the cached function returns for the arguments (cache_manager.py lines
\* 22, 28, 34).
cached_value(key) ==
  CASE key[1] = "cached_legal_extraction" -> extract_legal_information(key[3])
    [] key[1] = "cached_contract_summary" -> resume_contract(key[3])
    [] key[1] = "cached_kcp_analysis" -> analyse_contract_kcp(key[3], key[4])

\* get_cached_result_fast (lines 47-53): the pair it returns for a call made
\* with the cache entries as given.
get_cached_result_fast(cache, key, call_outcome) ==
  IF cache_data_returns(cache, key, call_outcome)
  THEN <<TRUE, Some(cached_value(key))>>
  ELSE <<FALSE, None>>

\* get_cached_result_fast is called: it calls the cached function.
GetCachedResultFast ==
  /\ \E key \in FastCalls, call_outcome \in CallOutcomes :
       /\ data_cache' = cache_data_keep(data_cache, key, call_outcome)
       /\ last_call' = [op |-> "get_cached_result_fast", key |-> key,
                        was_cached |-> key \in data_cache,
                        returned |-> get_cached_result_fast(data_cache, key, call_outcome)]
  /\ UNCHANGED <<batchvars, wrappervars, hashvars, statsvars, runvars, session_state,
                 ocr_cache, ocr_calls, kcp_file>>

\* Calls of get_cached_result_fast and expiring cache entries in any order.
NextFast ==
  \/ GetCachedResultFast
  \/ CacheDataExpires

SpecFast == InitWeb /\ [][NextFast]_vars

\* ------------------------------------------- the error table (ProcessingStats)
\* Most failures recorded on one ProcessingStats.
MaxErrors == 12

\* The rows of error_details that create_error_table shows (line 101: [-10:],
\* line 104: > 10).
ErrorWindow == 10

\* table.add_row(error["file"], error["error"]) (line 102).
ErrorRow(entry) == <<entry.file, entry.error>>

\* The row added for the failures that are not shown (line 105).
MoreErrorsRow(hidden) == <<"...", <<"more errors", hidden>>>>

\* The window taken from the front of the log: the oldest failures.
error_window_oldest(details) ==
  SubSeq(details, 1, IF Len(details) < ErrorWindow THEN Len(details) ELSE ErrorWindow)

\* self.error_details[-10:] (line 101).
error_window(details) ==
  SubSeq(details,
         IF Len(details) > ErrorWindow THEN Len(details) - ErrorWindow + 1 ELSE 1,
         Len(details))

\* create_error_table (lines 92-107): None, or the rows of the table.
create_error_table(s) ==
  IF s.error_details = << >>
  THEN None
  ELSE LET shown == error_window(s.error_details)
       IN [rows |-> [i \in DOMAIN shown |-> ErrorRow(shown[i])]
                    \o (IF Len(s.error_details) > ErrorWindow
                        THEN <<MoreErrorsRow(Len(s.error_details) - ErrorWindow)>>
                        ELSE << >>)]

\* A file cannot be read: process_files records the failure (lines 242-244).
ReadError(file_name) == <<"ReadError", file_name>>
AddError ==
  /\ pc = "idle"
  /\ Len(stats.error_details) < MaxErrors
  /\ \E file_name \in {"a", "b"} : stats' = add_error(stats, file_name, ReadError(file_name))
  /\ error_table' = NoTable
  /\ UNCHANGED <<store, force, pc, document_ids, markdown_contents, analyzed_docs,
                 remaining_ids, remaining_contents, tasks, results, order, log, idx,
                 start, prev, wrappervars, hashvars, webvars, runvars>>

\* display_final_summary asks for the error table (line 266).
CreateErrorTable ==
  /\ pc = "idle"
  /\ error_table' = create_error_table(stats)
  /\ UNCHANGED <<batchvars, wrappervars, hashvars, webvars, runvars>>

\* One ProcessingStats on which failures are recorded and the table is asked for.
InitStats ==
  /\ store = [k \in DocIds |-> None]
  /\ force = FALSE
  /\ ProcessorIdle
  /\ WrapperIdle
  /\ HashIdle
  /\ WebIdle
  /\ StatsIdle

NextStats ==
  \/ AddError
  \/ CreateErrorTable

SpecStats == InitStats /\ [][NextStats]_vars

\* ------------------------------------- file reads around the batch calls
\* Most failing file reads that are followed on one processor.
MaxReadErrors == 1

ReadErrorsSoFar ==
  Cardinality({i \in DOMAIN stats.error_details :
                 \E f \in DocIds : stats.error_details[i].error = ReadError(f)})

\* process_files cannot read one of its files and records that before it calls
\* the batch (lines 235-245).
ReadFileFails ==
  /\ pc \in {"idle", "returned"}
  /\ ~prev.called
  /\ ReadErrorsSoFar < MaxReadErrors
  /\ \E file_name \in {"c"} : stats' = add_error(stats, file_name, ReadError(file_name))
  /\ UNCHANGED <<store, force, pc, document_ids, markdown_contents, analyzed_docs,
                 remaining_ids, remaining_contents, tasks, results, order, log, idx,
                 start, prev, outside>>

\* One processor: failing file reads, a batch call, a second batch call.
NextFiles ==
  \/ NextRerun
  \/ ReadFileFails

SpecFiles == Init /\ [][NextFiles]_vars

\* --------------------------------- a structured_extract_baml run (the CLI)
\* The Markdown files a run discovers (lines 327-343): each has a stem, a
\* content and can be read or not. At least one is found (lines 345-347).
DiscoveredFiles ==
  UNION {{[i \in 1..n |-> [stem |-> ids[i], content |-> contents[i], readable |-> rd[i]]] :
            ids \in IdLists(n), contents \in [1..n -> Contents], rd \in [1..n -> BOOLEAN]} :
         n \in 1..MaxDocs}

\* A pre-filter that is applied with force too.
unprocessed_files_always_filtered(md_files, st, f) ==
  SelectSeq(md_files, LAMBDA file : load_object(st, file.stem) = None)

\* The pre-filter (lines 359-371): without force, the files whose stem has no
\* store entry; every file with force.
unprocessed_files(md_files, st, f) ==
  IF ~f THEN SelectSeq(md_files, LAMBDA file : load_object(st, file.stem) = None)
  ELSE md_files

\* The read loop of process_files (lines 235-245): the statistics after it,
\* with one error per file that cannot be read.
RECURSIVE read_errors(_, _)
read_errors(s, md_files) ==
  IF md_files = << >> THEN s
  ELSE LET file == Head(md_files)
       IN read_errors(IF file.readable THEN s
                      ELSE add_error(s, file.stem, ReadError(file.stem)),
                      Tail(md_files))
valid_files(md_files) == SelectSeq(md_files, LAMBDA file : file.readable)

\* structured_extract_baml from the construction of the processor (line 355)
\* to the batch call of process_files (line 255), or to the return of a run
\* that has nothing to process (lines 373-378, 247-249).
RunStarts ==
  /\ pc = "idle"
  /\ ~run.called
  /\ \E md_files \in DiscoveredFiles :
       LET unprocessed == unprocessed_files(md_files, store, force)
           discovered == [stats EXCEPT !.files_discovered = Len(md_files)]
           valid == valid_files(unprocessed)
       IN /\ run' = [called |-> TRUE, md_files |-> md_files, unprocessed |-> unprocessed,
                     store |-> store]
          /\ IF unprocessed = << >>
             THEN /\ stats' = discovered
                  /\ pc' = "returned"
                  /\ UNCHANGED <<document_ids, markdown_contents, analyzed_docs,
                                 remaining_ids, remaining_contents, tasks, results,
                                 order, log, idx, start>>
             ELSE /\ stats' = read_errors(discovered, unprocessed)
                  /\ IF valid = << >>
                     THEN /\ pc' = "returned"
                          /\ UNCHANGED <<document_ids, markdown_contents, analyzed_docs,
                                         remaining_ids, remaining_contents, tasks,
                                         results, order, log, idx, start>>
                     ELSE /\ document_ids' = [i \in DOMAIN valid |-> valid[i].stem]
                          /\ markdown_contents' = [i \in DOMAIN valid |-> valid[i].content]
                          /\ analyzed_docs' = << >>
                          /\ remaining_ids' = << >>
                          /\ remaining_contents' = << >>
                          /\ tasks' = << >>
                          /\ results' = << >>
                          /\ order' = << >>
                          /\ log' = << >>
                          /\ idx' = 1
                          /\ start' = [store |-> store,
                                       stats |-> read_errors(discovered, unprocessed)]
                          /\ pc' = "probe"
  /\ UNCHANGED <<store, force, prev, wrappervars, hashvars, webvars, statsvars>>

\* The batch call of the run has returned: display_final_summary (lines 258,
\* 260-269) builds the error table and the run is over.
RunReturns ==
  /\ pc = "done"
  /\ run.called
  /\ pc' = "returned"
  /\ error_table' = create_error_table(stats)
  /\ UNCHANGED <<store, force, stats, document_ids, markdown_contents, analyzed_docs,
                 remaining_ids, remaining_contents, tasks, results, order, log, idx,
                 start, prev, wrappervars, hashvars, webvars, runvars>>

\* One run. The batch call of a run always has work: what the probe loop reads
\* is what the pre-filter read, so line 148 is not reached.
NextRun ==
  \/ RunStarts
  \/ CacheProbe
  \/ ProbeDone
  \/ SkipProbe
  \/ Dispatch
  \/ TaskStarts
  \/ AllStarted
  \/ TaskCompletes
  \/ AllCompleted
  \/ ProcessResult
  \/ ResultsDone
  \/ RunReturns

SpecRun == Init /\ [][NextRun]_vars

\* ------------------------------------------------------------- progress
\* Every dispatched extraction call is eventually started and eventually
\* returns or fails, and the batch takes its own steps.
BatchFairness ==
  /\ WF_vars(TaskStarts)
  /\ WF_vars(AllStarted)
  /\ WF_vars(TaskCompletes)
  /\ WF_vars(AllCompleted)
  /\ WF_vars(ProcessResult)
  /\ WF_vars(ResultsDone)

SpecLive == Init /\ [][Next]_vars /\ BatchFairness

\* ------------------------------------------------- vocabulary of the claims
\* The call has run to its return statement.
Done == pc = "done"

DistinctIds ==
  \A i, j \in DOMAIN document_ids : i # j => document_ids[i] # document_ids[j]

\* What this call added to the counters and to the error log.
NewHits == stats.cache_hits - start.stats.cache_hits
NewProcessed == stats.files_processed - start.stats.files_processed
NewErrorCount == stats.errors - start.stats.errors
NewErrors ==
  SubSeq(stats.error_details, Len(start.stats.error_details) + 1, Len(stats.error_details))

\* The returned list: first the cache hits, then the computed artifacts.
ReturnedHits == SubSeq(analyzed_docs, 1, NewHits)
ReturnedComputed == SubSeq(analyzed_docs, NewHits + 1, Len(analyzed_docs))

Occurrences(seq, x) == Cardinality({i \in DOMAIN seq : seq[i] = x})
IdsOf(seq) == [i \in DOMAIN seq |-> seq[i].document_id]
FilesOf(seq) == [i \in DOMAIN seq |-> seq[i].file]
Logged(op) == SelectSeq(log, LAMBDA e : e.op = op)
ArgsOf(seq) == [i \in DOMAIN seq |-> seq[i].arg]

\* Outcomes of the dispatched calls.
FailedTasks == {i \in DOMAIN tasks : tasks[i] \in {"exc", "bad"}}
NoWriteFailed == Logged("write_failed") = << >>

\* ------------------------------------------------------------------ C1
\* C1: whatever the completion order, the outcome recorded for document id d
\* is the outcome of the extraction call made with d's own content: a computed
\* artifact returned with id d, the store entry written under d, and a failure
\* logged for d all stem from d's content, never from another document's.
C1_OutcomeRoutedByDocumentId ==
  (Done /\ DistinctIds) =>
    \A p \in DOMAIN document_ids :
      LET d == document_ids[p]
          c == markdown_contents[p]
      IN /\ \A j \in DOMAIN ReturnedComputed :
              ReturnedComputed[j].document_id = d => ReturnedComputed[j].data = c
         /\ (\E w \in DOMAIN log : log[w] = [op |-> "write", arg |-> d])
              => store[d] = Artifact(d, c)
         /\ \A e \in DOMAIN NewErrors :
              NewErrors[e].file = d =>
                NewErrors[e].error \in {ExtractionError(c), ValidationError(c), StoreError(d)}

\* ------------------------------------------------------------------ C2
\* C2: after a call on pairwise distinct ids every input id is in exactly one
\* of the categories cache hit (returned, counted in cache_hits), computed
\* (returned, counted in files_processed) and failed (one entry of
\* error_details, counted in errors), also when a store write fails.
C2_ExactlyOneOutcomePerId ==
  (Done /\ DistinctIds) =>
    /\ \A p \in DOMAIN document_ids :
         LET d == document_ids[p]
         IN Occurrences(IdsOf(ReturnedHits), d)
              + Occurrences(IdsOf(ReturnedComputed), d)
              + Occurrences(FilesOf(NewErrors), d) = 1
    /\ NewHits = Len(ReturnedHits)
    /\ NewProcessed = Len(ReturnedComputed)
    /\ NewErrorCount = Len(NewErrors)

\* ------------------------------------------------------------------ C3
\* C3: when exactly one of the dispatched extraction calls fails (it raises or
\* its result is unusable) and nothing else goes wrong, the call reaches its
\* return statement with exactly one failure recorded (errors grows by 1, one
\* new entry in error_details) and returns an artifact for each of the other
\* N-1 documents; every other call's result was collected, stamped with an id
\* of the work list and written to the store.
C3_OneFailureIsIsolated ==
  (Done /\ Cardinality(FailedTasks) = 1 /\ NoWriteFailed) =>
    /\ NewErrorCount = 1
    /\ Len(NewErrors) = 1
    /\ Len(analyzed_docs) = Len(document_ids) - 1
    /\ Len(results) = Len(tasks)
    /\ Len(ReturnedComputed) = Len(tasks) - 1
    /\ Len(Logged("write")) = Len(tasks) - 1
    /\ \A j \in DOMAIN ReturnedComputed :
         /\ \E k \in DOMAIN remaining_ids :
              ReturnedComputed[j].document_id = remaining_ids[k]
         /\ DistinctIds => store[ReturnedComputed[j].document_id] = ReturnedComputed[j]

\* C3 witness: a call of MaxDocs documents has returned, one call raised and
\* another call's result was stamped, returned and stored.
C3_Witness ==
  /\ Done
  /\ Len(document_ids) = MaxDocs
  /\ Cardinality(FailedTasks) = 1
  /\ \E i \in DOMAIN tasks : tasks[i] = "exc"
  /\ NoWriteFailed
  /\ Len(ReturnedComputed) >= 1
  /\ order[1] \in FailedTasks

C5_FailureNamesItsDocument ==
  (/\ Done
   /\ DistinctIds
   /\ \A k \in DocIds : start.store[k] = None
   /\ NoWriteFailed) =>
    \A b \in DOMAIN tasks :
      (tasks[b] = "exc" /\ \A i \in DOMAIN tasks : i # b => tasks[i] = "ok") =>
        /\ NewErrors = <<[file |-> document_ids[b],
                          error |-> ExtractionError(markdown_contents[b])]>>
        /\ store[document_ids[b]] = None
        /\ \A p \in DOMAIN document_ids :
             p # b =>
               LET own == Artifact(document_ids[p], markdown_contents[p])
               IN /\ \E j \in DOMAIN ReturnedComputed : ReturnedComputed[j] = own
                  /\ store[document_ids[p]] = own
        /\ NewProcessed = Len(document_ids) - 1
        /\ NewErrorCount = 1
        /\ NewHits = 0

\* ------------------------------------------------------------------ C6
\* C6: failures are never persisted: after a call the store holds no entry
\* under the key of a document whose extraction call failed, when it held none
\* before the call.
C6_FailuresNeverPersisted ==
  (Done /\ DistinctIds) =>
    \A k \in DOMAIN tasks :
      (k \in FailedTasks /\ start.store[remaining_ids[k]] = None)
        => store[remaining_ids[k]] = None

\* ------------------------------------------------------------------ C7
\* The first of the two calls recorded no failure.
FirstCallClean == prev.stats.errors = prev.start.stats.errors

\* C7: idempotence. A second call with force = false on the same documents
\* (pairwise distinct ids), after a first call in which every extraction and
\* every store write succeeded, makes no extraction call, serves every
\* document as a cache hit and returns the artifacts the first call returned.
C7_SecondCallAllCacheHits ==
  (Done /\ prev.called /\ ~force /\ DistinctIds /\ FirstCallClean) =>
    /\ Logged("extract") = << >>
    /\ Logged("write") = << >>
    /\ NewHits = Len(document_ids)
    /\ Len(analyzed_docs) = Len(prev.returned)
    /\ {analyzed_docs[j] : j \in DOMAIN analyzed_docs}
         = {prev.returned[j] : j \in DOMAIN prev.returned}
    /\ IdsOf(analyzed_docs) = document_ids

\* C7 witness: the second call on MaxDocs documents has returned, and the first
\* call had extracted every one of them.
C7_Witness ==
  /\ Done
  /\ prev.called
  /\ ~force
  /\ DistinctIds
  /\ FirstCallClean
  /\ Len(document_ids) = MaxDocs
  /\ Len(prev.tasks) = MaxDocs
  /\ NewHits = MaxDocs

MissPositions ==
  SelectSeq([p \in DOMAIN document_ids |-> p],
            LAMBDA p : start.store[document_ids[p]] = None)
MissContents == [i \in DOMAIN MissPositions |-> markdown_contents[MissPositions[i]]]

\* C9: with force = false the extraction calls of one call are exactly one per
\* input document without store entry (with that document's content, the empty
\* content included), none for a document with a store entry, none twice.
C9_OneCallPerCacheMiss ==
  (pc \in {"await", "save", "done"} /\ ~force) =>
    /\ ArgsOf(Logged("extract")) = MissContents
    /\ Len(tasks) = Len(MissPositions)
    /\ remaining_ids = [i \in DOMAIN MissPositions |-> document_ids[MissPositions[i]]]

\* C9 witness: a call without force has returned; one document had a store
\* entry and another, of empty content, had none and was extracted.
C9_Witness ==
  /\ Done
  /\ ~force
  /\ \E p, q \in DOMAIN document_ids :
       /\ start.store[document_ids[p]] # None
       /\ start.store[document_ids[q]] = None
       /\ markdown_contents[q] = ""
  /\ ArgsOf(Logged("extract")) = <<"">>

\* ----------------------------------------------------------------- C10
\* C10: a call with an empty document list returns an empty list, makes no
\* extraction call, no store read and no store write, and leaves the counters,
\* the error log and the store as they were.
C10_EmptyBatchDoesNothing ==
  (Done /\ document_ids = << >>) =>
    /\ analyzed_docs = << >>
    /\ log = << >>
    /\ tasks = << >>
    /\ stats = start.stats
    /\ store = start.store

\* C10 witness: a call with an empty document list has returned, on a store
\* that holds entries.
C10_Witness ==
  /\ Done
  /\ document_ids = << >>
  /\ \E k \in DocIds : store[k] # None

\* ----------------------------------------------------------------- C11
\* C11: a store read that fails during the cache probe is a cache miss: the
\* call does not raise, the document is put on the work list (and so
\* extracted), and the documents after it are still probed.
C11_ReadFailureIsCacheMiss ==
  \A w \in DOMAIN log :
    log[w].op = "read_failed" =>
      /\ pc # "raised"
      /\ \E k \in DOMAIN remaining_ids : remaining_ids[k] = log[w].arg
      /\ Done => Len(Logged("read")) + Len(Logged("read_failed")) = Len(document_ids)

\* ----------------------------------------------------------------- C12
\* The positions of the work list whose result was usable, in order.
UsablePositions ==
  SelectSeq([k \in DOMAIN results |-> k], LAMBDA k : results[k].kind = "ok")

\* C12: a store write that fails loses nothing from the returned list and stops
\* nothing: when the call returns, the computed part of the returned list is the
\* stamped artifact of every usable result, in order, whether or not its store
\* write succeeded, and a store write was attempted for every one of them.
C12_WriteFailureKeepsArtifact ==
  Done =>
    /\ ReturnedComputed =
         [i \in DOMAIN UsablePositions |->
            Stamp(results[UsablePositions[i]].value, remaining_ids[UsablePositions[i]])]
    /\ \A w \in DOMAIN log :
         log[w].op = "write_failed" =>
           \E j \in DOMAIN ReturnedComputed : ReturnedComputed[j].document_id = log[w].arg
    /\ Len(Logged("write")) + Len(Logged("write_failed")) = Len(UsablePositions)

\* C12 witness: a call on two documents has returned; the store write of the
\* first result failed, the second result was then stamped and stored, and both
\* artifacts are in the returned list.
C12_Witness ==
  /\ Done
  /\ Len(remaining_ids) = 2
  /\ DistinctIds
  /\ SelectSeq(log, LAMBDA e : e.op \in {"write", "write_failed"})
       = <<[op |-> "write_failed", arg |-> remaining_ids[1]],
           [op |-> "write", arg |-> remaining_ids[2]]>>
  /\ IdsOf(ReturnedComputed) = remaining_ids
  /\ store[remaining_ids[2]] = ReturnedComputed[2]

\* ----------------------------------------------------------------- C13
\* C13: a store write that fails is not a processing failure: when the call
\* returns, errors has grown by the number of failed extraction calls only, no
\* new entry of error_details stems from a store write, and files_processed has
\* grown by the number of computed artifacts.
C13_WriteFailureIsNotAnError ==
  Done =>
    /\ NewErrorCount = Cardinality(FailedTasks)
    /\ Len(NewErrors) = Cardinality(FailedTasks)
    /\ \A e \in DOMAIN NewErrors : \A k \in DocIds : NewErrors[e].error # StoreError(k)
    /\ NewProcessed = Len(ReturnedComputed)

\* ----------------------------------------------------------------- C14
\* analyze_document has returned or raised.
AnalyzeDocumentOver == caller # NoCaller /\ wrapper_result # NoResult

\* C14: analyze_document(id, content) returns exactly when the batch call it
\* made yielded a result, and then returns the artifact of id: the store entry
\* of id (cache hit) or the artifact extracted from content and stamped id;
\* it raises exactly when the batch yielded no result (or was not executed);
\* it never returns None or an artifact of another id.
C14_WrapperReturnsItsArtifactOrRaises ==
  AnalyzeDocumentOver =>
    /\ wrapper_result.kind \in {"return", "raise"}
    /\ wrapper_result.kind = "return" <=> analyzed_docs # << >>
    /\ wrapper_result.kind = "return" =>
         /\ wrapper_result.value # None
         /\ wrapper_result.value.document_id = caller.document_id
         /\ wrapper_result.value \in
              {start.store[caller.document_id],
               Artifact(caller.document_id, caller.markdown)}
    /\ wrapper_result.kind = "raise" =>
         wrapper_result.error = ValueError(caller.document_id)

\* C14 witness: analyze_document raised because the one extraction call of
\* its batch failed, on a store that holds an entry for another document.
C14_Witness ==
  /\ AnalyzeDocumentOver
  /\ executions = 1
  /\ tasks \in {<<"exc">>, <<"bad">>}
  /\ wrapper_result.kind = "raise"
  /\ \E k \in DocIds : k # caller.document_id /\ store[k] # None

\* ----------------------------------------------------------------- C15
\* C15: analyze_document does the same in both calling contexts. Whatever the
\* context, once it is over the batch was executed exactly once, the
\* extraction collaborator was called once if the document had no store entry
\* (or force is set) and not at all otherwise, a document with a store entry is
\* returned from the store, and the result is the first artifact of the
\* batch or, without one, the error.
C15_NestedContextEquivalent ==
  AnalyzeDocumentOver =>
    LET miss == force \/ start.store[caller.document_id] = None
    IN /\ executions = 1
       /\ Len(Logged("extract")) = (IF miss THEN 1 ELSE 0)
       /\ ~miss => wrapper_result = [kind |-> "return",
                                     value |-> start.store[caller.document_id]]
       /\ wrapper_result = first_or_raise(caller.document_id, analyzed_docs)

\* ----------------------------------------------------------------- C16
\* C16: the N extraction calls of a batch are in flight together. A call is
\* started only while no call has completed (no start waits for a
\* completion), no result is consumed while a call is not yet started, and
\* when the batch is about to consume the first result all N calls, one per
\* document of the work list, are in flight.
C16_AllCallsInFlightTogether ==
  /\ (\E i \in DOMAIN tasks : tasks[i] = "created") =>
       /\ \A j \in DOMAIN tasks : tasks[j] \in {"created", "pending"}
       /\ results = << >>
  /\ (pc = "await" /\ results = << >>) =>
       /\ Len(tasks) = Len(remaining_ids)
       /\ \A j \in DOMAIN tasks : tasks[j] = "pending"
  /\ results # << >> => \A j \in DOMAIN tasks : tasks[j] # "created"

\* C16 witness: MaxDocs calls are in flight and no result has been consumed.
C16_Witness ==
  /\ pc = "await"
  /\ results = << >>
  /\ Len(tasks) = MaxDocs
  /\ \A j \in DOMAIN tasks : tasks[j] = "pending"

\* ----------------------------------------------------------------- C17
\* Outcomes of the dispatched calls: the calls that returned a usable result.
SucceededTasks == {i \in DOMAIN tasks : tasks[i] = "ok"}

\* C17: no counter update is lost or added: for every completion order, when
\* the call returns files_processed has grown by the number of extraction
\* calls that succeeded and errors (with error_details) by the number of
\* extraction calls that failed.
C17_CountersMatchCallOutcomes ==
  Done =>
    /\ NewProcessed = Cardinality(SucceededTasks)
    /\ NewErrorCount = Cardinality(FailedTasks)
    /\ Len(NewErrors) = NewErrorCount

\* ----------------------------------------------------------------- C18
HasSeparator(s) == \E i \in DOMAIN s : s[i] = Separator

\* C18: the boundary between the two parts is part of what is hashed. When the
\* same characters are cut at another place into two parts, none of the parts
\* holding the separator, as in ("ab", "c") and ("a", "bc"), the combined
\* strings differ and so do the fingerprints.
C18_BoundaryShiftChangesHash ==
  analysis_hash # None =>
    \A p \in Strings : \A q \in Strings :
      ( /\ p \o q = extracted_info \o kcp_content
        /\ p # extracted_info
        /\ ~HasSeparator(p \o q) )
      => /\ combined_content(p, q) # combined_content(extracted_info, kcp_content)
         /\ get_analysis_hash(p, q) # analysis_hash

\* C18 witness: the fingerprint of ("ab", "c") has been computed.
C18_Witness ==
  /\ analysis_hash # None
  /\ extracted_info = <<"a", "b">>
  /\ kcp_content = <<"c">>
  /\ analysis_hash # get_analysis_hash(<<"a">>, <<"b", "c">>)

\* ----------------------------------------------------------------- C19
\* C19 as stated: any two different pairs of strings, separator characters
\* allowed anywhere, are hashed from different combined strings and get
\* different fingerprints; equal pairs get equal fingerprints.
C19_DifferentInputsNeverCollide ==
  analysis_hash # None =>
    /\ analysis_hash = get_analysis_hash(extracted_info, kcp_content)
    /\ \A p \in Strings : \A q \in Strings :
         <<p, q>> # <<extracted_info, kcp_content>>
         => /\ combined_content(p, q) # combined_content(extracted_info, kcp_content)
            /\ get_analysis_hash(p, q) # analysis_hash

\* C19: two different pairs of strings whose first parts hold no separator
\* character (the second parts may) are hashed from different combined strings
\* and, the digest being injective, get different fingerprints; equal pairs get
\* equal fingerprints.
C19_NoCollisionWithoutSeparatorInFirstPart ==
  analysis_hash # None =>
    /\ analysis_hash = get_analysis_hash(extracted_info, kcp_content)
    /\ \A p \in Strings : \A q \in Strings :
         ( /\ <<p, q>> # <<extracted_info, kcp_content>>
           /\ ~HasSeparator(p)
           /\ ~HasSeparator(extracted_info) )
         => /\ combined_content(p, q) # combined_content(extracted_info, kcp_content)
            /\ get_analysis_hash(p, q) # analysis_hash

\* C19 witness: the fingerprint of ("a", "|b") has been computed: a second
\* part that holds the separator.
C19_Witness ==
  /\ analysis_hash # None
  /\ extracted_info = <<"a">>
  /\ kcp_content = <<Separator, "b">>

\* ----------------------------------------------------------------- C20
\* C20 as stated: the OCR service is called at most once for each
\* (bytes, type) pair, failed calls included.
C20_OcrAtMostOncePerFile ==
  \A p \in FileBytes \X FileTypes : ocr_calls[p].calls <= 1

\* C20: the OCR service returns a result at most once for each (bytes, type)
\* pair: every call but the last one made for a pair has failed, and a pair
\* with a cached result has had exactly one call that did not fail - also
\* when the file is uploaded again after another file.
C20_OcrSucceedsAtMostOncePerFile ==
  \A b \in FileBytes : \A t \in FileTypes :
    LET p == <<b, t>>
        key == <<get_file_hash(b), b, t>>
    IN /\ ocr_calls[p].calls <= ocr_calls[p].failures + 1
       /\ ocr_cache[key] # None <=> ocr_calls[p].calls = ocr_calls[p].failures + 1

\* C20 witness: a file was processed, another file was uploaded and
\* processed, and the first file, uploaded again, is complete again with one
\* call of the OCR service.
C20_Witness ==
  /\ session_state["ocr_complete"] = Some(TRUE)
  /\ session_state["current_file_bytes"] = Some("bytes-1")
  /\ \E t \in FileTypes :
       /\ session_state["current_file_type"] = Some(t)
       /\ ocr_calls[<<"bytes-1", t>>] = [calls |-> 1, failures |-> 0]
  /\ \E t \in FileTypes : ocr_calls[<<"bytes-2", t>>].calls > 0
  /\ session_state["markdown_content"] = Some(OcrText("bytes-1"))

\* ----------------------------------------------------------------- C21
\* C21: with n recorded failures create_error_table returns None when n = 0;
\* otherwise its rows are the min(n, ErrorWindow) most recent failures in the
\* order they were recorded, followed by one row that reports n - ErrorWindow
\* further errors exactly when n > ErrorWindow; errors is n.
C21_ErrorTableIsCappedWindow ==
  error_table # NoTable =>
    LET n == Len(stats.error_details)
        m == IF n < ErrorWindow THEN n ELSE ErrorWindow
    IN /\ stats.errors = n
       /\ n = 0 <=> error_table = None
       /\ n > 0 =>
            /\ Len(error_table.rows) = m + (IF n > ErrorWindow THEN 1 ELSE 0)
            /\ \A i \in 1..m :
                 error_table.rows[i] = <<stats.error_details[n - m + i].file,
                                         stats.error_details[n - m + i].error>>
            /\ n > ErrorWindow =>
                 error_table.rows[m + 1] = MoreErrorsRow(n - ErrorWindow)

\* C21 witness: the table of MaxErrors failures, more than the window holds,
\* whose oldest failure is of another file than the oldest failure shown.
C21_Witness ==
  /\ error_table # NoTable
  /\ Len(stats.error_details) = MaxErrors
  /\ MaxErrors > ErrorWindow
  /\ stats.error_details[1].file # stats.error_details[MaxErrors - ErrorWindow + 1].file
  /\ Len(error_table.rows) = ErrorWindow + 1

\* ----------------------------------------------------------------- C22
\* C22: no step of a processor - of a batch call, of a second batch call, a
\* failing file read - decreases files_processed, cache_hits or errors, and
\* error_details only grows at its end: the entries it had stay, in place.
C22_StatsOnlyGrow ==
  [][ /\ stats'.files_processed >= stats.files_processed
      /\ stats'.cache_hits >= stats.cache_hits
      /\ stats'.errors >= stats.errors
      /\ Len(stats'.error_details) >= Len(stats.error_details)
      /\ SubSeq(stats'.error_details, 1, Len(stats.error_details)) = stats.error_details
    ]_vars

\* C22 witness: after a failing file read and two batch calls all three
\* counters have grown and error_details holds the read failure first and a
\* failure of the batch after it.
C22_Witness ==
  /\ prev.called
  /\ Done
  /\ stats.files_processed > 0
  /\ stats.cache_hits > 0
  /\ Len(stats.error_details) >= 2
  /\ stats.error_details[1].error = ReadError(stats.error_details[1].file)
  /\ stats.error_details[2].error # ReadError(stats.error_details[2].file)

\* ----------------------------------------------------------------- C23
\* Every dispatched document has its outcome: its result was collected and
\* paired with an id, a usable result is in the returned list, and an unusable
\* or raised one is in error_details.
AllClassified ==
  /\ Len(results) = Len(remaining_ids)
  /\ idx = Len(remaining_ids) + 1
  /\ Len(ReturnedComputed) = Len(UsablePositions)
  /\ NewErrorCount >= Len(results) - Len(UsablePositions)

\* C23: once the extraction calls are dispatched, and every one of them
\* eventually returns or fails, the batch eventually reaches its return
\* statement with every dispatched document classified, whatever the number of
\* documents and the completion order.
C23_BatchAlwaysCompletes ==
  (pc = "start") ~> (Done /\ AllClassified)

\* C23 witness: a batch of MaxDocs documents has returned; its calls
\* completed in the reverse of the dispatch order, one failed, one succeeded.
C23_Witness ==
  /\ Done
  /\ AllClassified
  /\ Len(tasks) = MaxDocs
  /\ order[1] = MaxDocs
  /\ \E i, j \in DOMAIN tasks : tasks[i] = "exc" /\ tasks[j] = "ok"

\* ------------------------------------------------------------------ C24
\* The batch holds two documents with one store key, and both missed the cache.
TwoMissesOneKey ==
  /\ Len(document_ids) = 2
  /\ document_ids[1] = document_ids[2]
  /\ remaining_ids = document_ids

\* C24: when two documents of one batch have the same store key and both miss
\* the cache, an extraction call is made for each of them with its own
\* content, both results are written under the key, and the entry left under
\* the key is equivalent to the artifact of either document: it is the
\* artifact of the first and the artifact of the second.
C24_DuplicateKeyIsRedundantNotCorrupting ==
  (Done /\ TwoMissesOneKey /\ SucceededTasks = {1, 2} /\ NoWriteFailed) =>
    LET d == document_ids[1]
    IN /\ ArgsOf(Logged("extract")) = markdown_contents
       /\ ArgsOf(Logged("write")) = <<d, d>>
       /\ \A i \in 1..2 : store[d] = Artifact(d, markdown_contents[i])

\* ------------------------------------------------------------------ C25
\* The work-list positions whose result was usable, in work-list order.
UsableIds ==
  LET usable == SelectSeq([k \in DOMAIN results |-> k], LAMBDA k : results[k].kind = "ok")
  IN [j \in DOMAIN usable |-> remaining_ids[usable[j]]]

\* C25: every store entry a batch writes under key k carries document_id = k,
\* and the computed artifacts of the returned list carry the ids of the
\* work-list positions with a usable result, one artifact per position: the
\* stamp replaces the identity value the extraction result carried.
C25_WrittenAndReturnedCarryTheirKey ==
  [][/\ \A k \in DocIds :
          store'[k] # store[k] => (store'[k] # None /\ store'[k].document_id = k)
     /\ Done' => /\ IdsOf(ReturnedComputed)' = UsableIds'
                 /\ \A j \in DOMAIN ReturnedComputed' :
                      ReturnedComputed'[j].document_id # Unstamped]_vars

\* C25 witness: two documents were extracted, stamped, written and returned.
C25_Witness ==
  /\ Done
  /\ Len(remaining_ids) = 2
  /\ DistinctIds
  /\ IdsOf(ReturnedComputed) = remaining_ids
  /\ \A k \in DOMAIN remaining_ids :
       store[remaining_ids[k]] # None /\ store[remaining_ids[k]] # start.store[remaining_ids[k]]

\* ------------------------------------------------------------------ C26
\* The keys of the documents that missed the cache and whose own extraction
\* call returned a usable result.
ComputedKeys == {remaining_ids[i] : i \in SucceededTasks}

\* C26: a call with force = false changes store entries only under the keys of
\* cache-miss documents whose extraction succeeded: the entries of cache-hit
\* documents, of failed documents and of keys outside the batch are as they
\* were before the call.
C26_WritesOnlyForComputedMisses ==
  (Done /\ ~force) =>
    \A k \in DocIds : k \notin ComputedKeys => store[k] = start.store[k]

\* ------------------------------------------------------------------ C27
\* The last call rendered the KCP tab, and the KCP reference file exists.
KcpTabRendered ==
  /\ last_call.op = "render_contract_summary"
  /\ last_call.kcp_tab
  /\ kcp_file # None

\* C27: the KCP analysis follows its inputs: whenever the KCP tab has been
\* rendered and shows an analysis, that analysis was computed from the
\* extracted information of the session and from the content the KCP
\* reference file has now.
C27_KcpAnalysisFollowsItsInputs ==
  (KcpTabRendered /\ session_state["kcp_analysis"] # None) =>
    session_state["kcp_analysis"] =
      Some(analyse_contract_kcp(session_state["extracted_info"].some, kcp_file.some))

\* ------------------------------------------------------------------ C28
\* The session keys that hold results of the pipeline stages.
StageKeys ==
  {"ocr_complete", "markdown_content", "extracted_info", "resumed_content", "kcp_analysis"}

\* C28: every call of initialize_document_processing returns the hash of the
\* given bytes; it leaves every session key unchanged when that hash is
\* current_file_hash, and otherwise sets current_file_name, current_file_hash,
\* current_file_bytes and current_file_type to the new file, sets
\* ocr_in_progress, clears the results of all stages and changes nothing else.
C28_UploadResetsOnlyForNewHash ==
  [][last_call'.op = "initialize_document_processing" =>
       LET file_hash == get_file_hash(last_call'.file_bytes)
       IN /\ last_call'.returned = file_hash
          /\ IF session_state["current_file_hash"] = Some(file_hash)
             THEN session_state' = session_state
             ELSE /\ session_state'["current_file_name"] = Some(last_call'.file_name)
                  /\ session_state'["current_file_hash"] = Some(file_hash)
                  /\ session_state'["current_file_bytes"] = Some(last_call'.file_bytes)
                  /\ session_state'["current_file_type"] = Some(last_call'.file_type)
                  /\ session_state'["ocr_in_progress"] = Some(TRUE)
                  /\ \A k \in StageKeys : session_state'[k] = None
                  /\ session_state'["saved_path"] = session_state["saved_path"]]_vars

\* C28 witness: a file with a new hash has just been uploaded in a session
\* that had processed another file.
C28_Witness ==
  /\ last_call.op = "initialize_document_processing"
  /\ session_state["current_file_hash"] = Some(get_file_hash(last_call.file_bytes))
  /\ session_state["saved_path"] # None
  /\ session_state["ocr_in_progress"] = Some(TRUE)
  /\ \A k \in StageKeys : session_state[k] = None

\* ------------------------------------------------------------------ C29
\* The texts and results the stages derive from the file with the given bytes.
MarkdownOf(file_bytes) == OcrText(file_bytes)
ExtractedOf(file_bytes) == extract_legal_information(MarkdownOf(file_bytes))
SummaryOf(file_bytes) == resume_contract(ExtractedOf(file_bytes))

\* The derived values of session ss that are present were computed from the
\* file with the given bytes.
DerivedFrom(ss, file_bytes) ==
  /\ ss["markdown_content"] # None => ss["markdown_content"].some = MarkdownOf(file_bytes)
  /\ ss["extracted_info"] # None => ss["extracted_info"].some = ExtractedOf(file_bytes)
  /\ ss["resumed_content"] # None => ss["resumed_content"].some = SummaryOf(file_bytes)
  /\ ss["kcp_analysis"] # None =>
       ss["kcp_analysis"].some.analysis_of = ExtractedOf(file_bytes)

\* C29: in every reachable state of the hash-keyed pipeline, ocr_complete
\* implies a markdown_content and no OCR in progress, extracted_info implies
\* ocr_complete, resumed_content or kcp_analysis implies extracted_info, and
\* every derived value that is present was computed from the file whose hash
\* is current_file_hash.
C29_SessionFollowsCurrentFile ==
  /\ session_state["ocr_complete"] = Some(TRUE) =>
       /\ session_state["markdown_content"] # None
       /\ session_state["ocr_in_progress"] = Some(FALSE)
  /\ session_state["extracted_info"] # None => session_state["ocr_complete"] = Some(TRUE)
  /\ (session_state["resumed_content"] # None \/ session_state["kcp_analysis"] # None) =>
       session_state["extracted_info"] # None
  /\ \A k \in StageKeys : session_state[k] # None => session_state["current_file_hash"] # None
  /\ \A b \in FileBytes :
       session_state["current_file_hash"] = Some(get_file_hash(b)) =>
         /\ session_state["current_file_bytes"] = Some(b)
         /\ DerivedFrom(session_state, b)

\* C29 witness: a second file went through all four stages after a first file
\* had been processed.
C29_Witness ==
  /\ session_state["current_file_hash"] = Some(get_file_hash("bytes-2"))
  /\ \A k \in StageKeys : session_state[k] # None
  /\ \E t \in FileTypes :
       ocr_cache[<<get_file_hash("bytes-1"), "bytes-1", t>>] = Some(OcrText("bytes-1"))

\* ------------------------------------------------------------------ C30
\* C30: in the name-keyed pipeline, right after process_document has handled
\* an upload, every derived session value that is present (markdown_content,
\* extracted_info, resumed_content, kcp_analysis) was derived from the bytes
\* of that upload.
C30_NameKeyedSessionFollowsUpload ==
  last_call.op = "process_document" => DerivedFrom(session_state, last_call.file_bytes)

\* ------------------------------------------------------------------ C31
\* C31: in every reachable state of a processor the errors counter is the
\* number of entries of error_details.
C31_ErrorsCountTheirEntries ==
  stats.errors = Len(stats.error_details)

\* C31 witness: a processor that recorded a failing file read has returned
\* from a batch call in which two more errors were recorded.
C31_Witness ==
  /\ Done
  /\ ReadErrorsSoFar = 1
  /\ stats.errors = 3
  /\ NewErrorCount = 2

\* ------------------------------------------------------------------ C32
\* The run is over.
RunOver == run.called /\ pc = "returned"

\* C32: at the end of a run every discovered file has contributed to at most
\* one of the three counters: files_processed + cache_hits + errors is at most
\* files_discovered.
C32_CountersWithinDiscovered ==
  RunOver =>
    /\ stats.files_discovered = Len(run.md_files)
    /\ stats.files_processed + stats.cache_hits + stats.errors <= stats.files_discovered

\* ------------------------------------------------------------------ C33
\* The stems of the discovered files that had a store entry when the
\* pre-filter ran, and the contents of the files the run has to extract.
StemsWithEntry ==
  {run.md_files[i].stem : i \in {j \in DOMAIN run.md_files :
                                   run.store[run.md_files[j].stem] # None}}
ContentsOf(md_files) == [i \in DOMAIN md_files |-> md_files[i].content]
ReadableOf(md_files) == SelectSeq(md_files, LAMBDA file : file.readable)
FilesWithoutEntry ==
  SelectSeq(run.md_files, LAMBDA file : run.store[file.stem] = None)

\* C33: a run without force makes extraction calls only for the readable
\* files whose stem had no store entry when the pre-filter ran, and leaves the
\* entry of every stem that had one as it was; when every discovered file had
\* an entry it makes no extraction call and no store write. A run with force
\* makes one extraction call for every discovered readable file.
C33_PrefilterProtectsEntries ==
  RunOver =>
    /\ ~force =>
         /\ ArgsOf(Logged("extract")) = ContentsOf(ReadableOf(FilesWithoutEntry))
         /\ \A k \in StemsWithEntry : store[k] = run.store[k]
         /\ \A i \in DOMAIN log : log[i].op = "write" => log[i].arg \notin StemsWithEntry
         /\ FilesWithoutEntry = << >> => (log = << >> /\ store = run.store)
    /\ force => ArgsOf(Logged("extract")) = ContentsOf(ReadableOf(run.md_files))

\* C33 witness: a run without force over a file with a store entry and a
\* readable file without one has extracted and written the second.
C33_Witness ==
  /\ RunOver
  /\ ~force
  /\ StemsWithEntry # {}
  /\ Len(run.md_files) = 2
  /\ Logged("write") # << >>

\* ------------------------------------------------------------------ C34
\* The stages in the order of the pipeline, the session keys of each stage,
\* and the failure each stage reports.
StageOrder == <<"ocr", "extraction", "summary", "kcp">>
KeysOfStage(stage) ==
  CASE stage = "ocr" -> {"ocr_complete", "markdown_content"}
    [] stage = "extraction" -> {"extracted_info"}
    [] stage = "summary" -> {"resumed_content"}
    [] stage = "kcp" -> {"kcp_analysis"}
StageOfFailure(failure) == IF failure = "kcp_file" THEN "kcp" ELSE failure
RankOfStage(stage) == CHOOSE r \in DOMAIN StageOrder : StageOrder[r] = stage

\* In session ss with the caches as they are, the next render of the stage
\* invokes the stage's collaborator (or loads the KCP file) again.
StageRunsAgain(ss, stage, ocr_entries, data_entries) ==
  CASE stage = "ocr" ->
         /\ ss["ocr_complete"] # Some(TRUE)
         /\ ss["current_file_hash"] # None
         /\ ocr_entries[<<ss["current_file_hash"].some, ss["current_file_bytes"].some,
                          ss["current_file_type"].some>>] = None
    [] stage = "extraction" ->
         /\ OcrDone(ss)
         /\ ss["extracted_info"] = None
         /\ cached_legal_extraction_key(ss["markdown_content"].some) \notin data_entries
    [] stage = "summary" ->
         /\ ss["extracted_info"] # None
         /\ ss["resumed_content"] = None
         /\ cached_contract_summary_key(ss["extracted_info"].some) \notin data_entries
    [] stage = "kcp" ->
         /\ ss["extracted_info"] # None
         /\ ss["resumed_content"] # None
         /\ ss["kcp_analysis"] = None

\* C34: when the call of a stage raises (or the KCP file is missing), the step
\* leaves the value of that stage and of every later stage unset, leaves every
\* value an earlier stage had set as it was, and leaves the session and the
\* caches such that the next render runs the failed stage again.
C34_FailedStageIsRetryable ==
  [][(/\ last_call'.op \in {"process_ocr_with_spinner", "render_extracted_information",
                            "render_contract_summary"}
      /\ last_call'.failed \in {"ocr", "extraction", "summary", "kcp", "kcp_file"}) =>
       LET stage == StageOfFailure(last_call'.failed)
       IN /\ \A r \in DOMAIN StageOrder :
               IF r >= RankOfStage(stage)
               THEN \A k \in KeysOfStage(StageOrder[r]) : session_state'[k] = None
               ELSE \A k \in KeysOfStage(StageOrder[r]) :
                      /\ session_state'[k] # None
                      /\ session_state[k] # None => session_state'[k] = session_state[k]
          /\ StageRunsAgain(session_state', stage, ocr_cache', data_cache')]_vars

\* C34 witness: the KCP analysis call has just failed in a session whose OCR,
\* extraction and summary are done.
C34_Witness ==
  /\ last_call.op = "render_contract_summary"
  /\ last_call.failed = "kcp"
  /\ session_state["resumed_content"] # None
  /\ session_state["kcp_analysis"] = None

\* ------------------------------------------------------------------ C35
\* cached_mistral_ocr holds a result for the file hash.
OcrResultCached(file_hash) ==
  \E key \in OcrKeys : key[1] = file_hash /\ ocr_cache[key] # None

\* C35: is_ocr_cached(file_hash) returns true exactly when cached_mistral_ocr
\* has succeeded for the file hash: true after a successful OCR of the file,
\* false for a file that was never processed.
C35_IsOcrCachedReportsTheCache ==
  last_call.op = "is_ocr_cached" =>
    (last_call.returned <=> OcrResultCached(last_call.file_hash))

\* ------------------------------------------------------------------ C36
\* C36: get_cached_result_fast returns (is_cached, result) with is_cached true
\* only if the arguments had an entry in the cache before the call, and
\* (False, None) otherwise.
C36_FastResultTellsWhetherCached ==
  last_call.op = "get_cached_result_fast" =>
    /\ last_call.returned[1] => last_call.was_cached
    /\ ~last_call.was_cached => last_call.returned = <<FALSE, None>>

====
